---- MODULE Spec2Model ----
(***************************************************************************)
(* Model of tidal_dl's download manager (download_manager.py): one batch   *)
(* run of downloadTracks / downloadVideos, the per-item pipelines          *)
(* downloadTrack / downloadVideo it drives, and the files they touch.      *)
(***************************************************************************)
EXTENDS Integers, Sequences, FiniteSets, TLC

(* ---------------------------------------------------------------- bounds *)
MaxTracks == 2
MaxBytes == 2
MaxSegs == 1
\* items of a batch handed to the thread pool
MaxPool == 6
\* parts (literal text, placeholders, stray braces) of a path template
MaxParts == 3
\* menu choices of one interactive session
MaxTurns == 2

(* ------------------------------------------------------ program constants *)
\* ThreadPoolExecutor(max_workers=5)
MaxWorkers == 5
\* leading signature of a native FLAC file, b'fLaC'
FlacSig == 1
\* leading signature of an MP4 container (ftyp box)
Mp4Sig == 2
\* number of distinct byte values of the model's files
ByteMod == 4
\* the keystream byte of the session key recovered from a well-formed token
KeyStream == ByteMod - 1

(* ------------------------------------------------------------ the catalog *)
TrackIds == 1 .. 3
AlbumIds == 1 .. 2
\* track.album.id: tracks 1 and 2 are on album 1, track 3 on album 2
AlbumOfTrack(t) == IF t <= 2 THEN 1 ELSE 2
\* the directory of a playlist folder (album folders are named by album id)
PlaylistDir == 0

\* stream.encryptionKey: absent, empty, a well-formed token, a malformed one
KeyKinds == {"None", "", "token", "badtoken"}
\* the text of a transport error (tool.start's err) and of an exception
TransportMsgs == {"net", "io"}
DecryptMsgs == {"badtoken", "io"}
ApiMsg == "api"

(* ------------------------------------------------------------------ bytes *)
\* the plaintext asset the provider serves for a stream of n bytes whose
\* container signature is sig
Asset(sig, n) == [k \in 1 .. n |-> IF k = 1 THEN sig ELSE 0]
\* AES-CTR with the session key: byte-wise, and its own inverse pair
EncByte(b) == (b + KeyStream) % ByteMod
DecByte(b) == (b + ByteMod - KeyStream) % ByteMod
EncSeq(s) == [k \in 1 .. Len(s) |-> EncByte(s[k])]
DecSeq(s) == [k \in 1 .. Len(s) |-> DecByte(s[k])]
\* what the provider serves: ciphertext when the stream carries a key
Served(key, sig, n) == IF key \in {"None", ""} THEN Asset(sig, n) ELSE EncSeq(Asset(sig, n))
Prefix(s, n) == SubSeq(s, 1, n)

VARIABLES cfg, batch, provider, drv, job, fs, calls, ret, render, app, converter

vars == <<cfg, batch, provider, drv, job, fs, calls, ret, render, app, converter>>

(* ------------------------------------------------------------------ files *)
\* a file: its bytes and the state of its tags ("none", "tagged" after
\* _set_metadata, "flac" after the remux saved the re-applied tags)
File(data, tags) == [data |-> data, tags |-> tags]
\* what reading a missing file yields
NoFile == File(<<>>, "missing")
Content(f, p) == IF p \in DOMAIN f THEN f[p] ELSE NoFile
\* trackNumber of a track (fixed by the catalog)
TrackNumber(t) == t
\* __getExtension__: decided by the stream's url and codec, fixed per track
getExtension(t) == IF t = 1 THEN ".m4a" ELSE ".flac"

Exists(f, p) == p \in DOMAIN f
\* tidal_dl.aigpy.file.getSize: the size, or 0 for a missing file
getSize(f, p) == IF Exists(f, p) THEN Len(f[p].data) ELSE 0
WriteFile(f, p, c) == [q \in DOMAIN f \cup {p} |-> IF q = p THEN c ELSE f[q]]
RemoveFile(f, p) == [q \in DOMAIN f \ {p} |-> f[q]]
\* os.replace(src, dst), src existing
ReplaceFile(f, src, dst) == RemoveFile(WriteFile(f, dst, f[src]), src)

(* ------------------------------------------------------------------ paths *)
N == Len(batch.items)
Items == 1 .. N
TrackOf(i) == batch.items[i]
InPlaylistFolder == batch.mode = "playlist" /\ cfg.usePlaylistFolder
\* the album handed to downloadTrack: the batch's album, or __getAlbum__(item)
itemAlbum(i) == IF batch.mode = "album" THEN batch.album ELSE AlbumOfTrack(TrackOf(i))
\* getTrackPath / getVideoPath of item k of batch b under settings c, num its
\* trackNumberOnPlaylist: base folder, number, item and extension
PathFor(c, b, k, num) ==
    << IF b.mode = "playlist" /\ c.usePlaylistFolder THEN PlaylistDir
       ELSE IF b.mode = "album" THEN b.album ELSE AlbumOfTrack(b.items[k]),
       IF b.mode = "playlist" /\ c.usePlaylistFolder THEN num ELSE TrackNumber(b.items[k]),
       b.items[k],
       IF b.kind = "videos" THEN ".mp4" ELSE getExtension(b.items[k]) >>
getTrackPath(i) == PathFor(cfg, batch, i, job[i].num)
FinalPath(i) == <<getTrackPath(i), "">>
PartPath(i) == <<getTrackPath(i), ".part">>
\* path.rsplit(".", 1)[0] + ".lrc"
LrcPath(i) == <<[getTrackPath(i) EXCEPT ![4] = ".lrc"], "">>
\* downloadCover: os.path.join(getAlbumPath(album), "cover.jpg")
CoverPath(a) == << <<a, 0, 0, "cover.jpg">>, "" >>
\* the sibling cover of a track file: dirname(file_path)/cover.jpg
SiblingCover(i) == << <<getTrackPath(i)[1], 0, 0, "cover.jpg">>, "" >>

(* ---------------------------------------------------------- initial state *)
SeqsUpTo(S, n) == UNION {[1 .. k -> S] : k \in 1 .. n}
\* the return value of an item download: nothing yet, a (bool, str) pair,
\* or a bare bool
NoResult == [shape |-> "none", ok |-> FALSE, msg |-> ""]
Pair(ok, msg) == [shape |-> "pair", ok |-> ok, msg |-> msg]
Bare(ok) == [shape |-> "bool", ok |-> ok, msg |-> ""]

\* what the batch function hands its caller: still running, None (neither
\* function has a return statement), or an exception; no counts are kept
Returned(shape) == [shape |-> shape, failed |-> 0, succeeded |-> 0]

NewJob ==
    [pc |-> "idle", got |-> 0, exists |-> FALSE,
     num |-> 0, skip |-> FALSE, eff |-> {}, conv |-> "n/a", why |-> "",
     orig |-> NoFile, buf |-> <<>>, res |-> NoResult]

\* SETTINGS as the batch reads it; lyricFile at its default (config.py)
Settings ==
    [multiThread : BOOLEAN, checkExist : BOOLEAN, verbose : BOOLEAN,
     convertFlac : BOOLEAN, maxQuality : BOOLEAN,
     saveCovers : BOOLEAN, usePlaylistFolder : BOOLEAN, lyricFile : {FALSE}]

\* the arguments of downloadTracks(tracks, album, playlist) and
\* downloadVideos(videos, album, playlist)
AlbumBatches ==
    {[kind |-> "tracks", mode |-> "album", album |-> a, items |-> s] :
        a \in AlbumIds, s \in SeqsUpTo(TrackIds, MaxTracks)}
PlaylistBatches ==
    {[kind |-> "tracks", mode |-> "playlist", album |-> 0, items |-> s] :
        s \in SeqsUpTo(TrackIds, MaxTracks)}
VideoBatches ==
    {[kind |-> "videos", mode |-> "album", album |-> 1, items |-> s] :
        s \in SeqsUpTo(TrackIds, MaxTracks)}
Batches ==
    {b \in AlbumBatches : \A k \in 1 .. Len(b.items) : AlbumOfTrack(b.items[k]) = b.album}
        \cup PlaylistBatches \cup VideoBatches

\* files an earlier run left under a final name: an empty file or a download
PriorFiles ==
    {File(<<>>, "none")} \cup
    {File(Asset(sg, n), "none") : sg \in {FlacSig, Mp4Sig}, n \in 1 .. MaxBytes}

\* what TIDAL_API answers for a track besides its stream: everything, or
\* getTrackContributors raises, or getLyrics raises
MetaAnswers == {"ok", "nocontrib", "nolyrics"}
\* the stream descriptors TIDAL_API.getStreamUrl can return: the encryption
\* key, and the signature and length of the asset; meta is how the later
\* lookups for the same track end
Streams ==
    {[key |-> k, sig |-> sg, len |-> n, meta |-> "ok"] :
        k \in KeyKinds, sg \in {FlacSig, Mp4Sig}, n \in 0 .. MaxBytes}
\* a video stream: len is the number of segment URLs of its manifest
VideoStreams == {[key |-> "None", sig |-> Mp4Sig, len |-> n] : n \in 0 .. MaxSegs}

(* ------------------------------------------------------- path templates *)
\* A template or a value is a sequence of lexemes: the braces, the names of
\* two placeholders every template kind knows, a letter, the path separator,
\* the character that replaces it, and a file extension.
Token(name) == <<"{", name, "}">>
\* the placeholders of the replace chains, in the order of the chains
\* for a kind: getVideoPath has no {Duration}
Recognized(kind) ==
    IF kind = "video" THEN {"ArtistName", "AlbumTitle"}
    ELSE {"ArtistName", "AlbumTitle", "Duration"}
RECURSIVE Flatten(_)
Flatten(ps) == IF ps = <<>> THEN <<>> ELSE Head(ps) \o Flatten(Tail(ps))
\* what a configured format is made of: text, a separator, placeholders
\* (known and unknown), stray braces, a placeholder's name as plain text
Parts ==
    {<<"x">>, <<"/">>, Token("ArtistName"), Token("AlbumTitle"), Token("Duration"),
     Token("x"), <<"{">>, <<"}">>, <<"ArtistName">>}
\* SETTINGS.trackFileFormat / videoFileFormat / albumFolderFormat; <<>> is
\* the unset format
Templates ==
    {<<>>} \cup UNION {{Flatten(ps) : ps \in [1 .. n -> Parts]} : n \in 1 .. MaxParts}
\* artist.name and album.title as the provider sends them
Values ==
    {<<>>, <<"x">>, <<"/">>, Token("ArtistName"), Token("AlbumTitle"),
     <<"x", ".">>, <<".", " ">>}
\* track.duration and album.duration, in seconds (fixed by the catalog)
DurationOf(kind) == IF kind = "album" THEN 3725 ELSE 5
\* str(datetime.timedelta(seconds=seconds)): hours, minutes and seconds
timedelta(seconds) ==
    <<ToString(seconds \div 3600), ":", ToString((seconds % 3600) \div 60), ":",
      ToString(seconds % 60)>>
\* __getDurationStr__(seconds): a leading "0:" is dropped
getDurationStr(seconds) ==
    LET time_string == timedelta(seconds)
    IN  IF time_string[1] = "0" THEN SubSeq(time_string, 3, Len(time_string))
        ELSE time_string
\* SETTINGS.getDefaultPathFormat(Type.Track | Type.Video | Type.Album),
\* reduced to the modelled placeholders
getDefaultPathFormat(kind) ==
    IF kind = "album" THEN Token("ArtistName") \o <<"/">> \o Token("AlbumTitle")
    ELSE <<"x">> \o Token("ArtistName")
\* str.replace(old, new): every non-overlapping occurrence, left to right
RECURSIVE Replace(_, _, _)
Replace(s, old, new) ==
    IF Len(s) < Len(old) THEN s
    ELSE IF SubSeq(s, 1, Len(old)) = old
         THEN new \o Replace(SubSeq(s, Len(old) + 1, Len(s)), old, new)
         ELSE <<Head(s)>> \o Replace(Tail(s), old, new)
\* str.rstrip(ch) and str.lstrip(ch)
RECURSIVE rstrip(_, _)
rstrip(s, ch) ==
    IF s # <<>> /\ s[Len(s)] = ch THEN rstrip(SubSeq(s, 1, Len(s) - 1), ch) ELSE s
RECURSIVE lstrip(_, _)
lstrip(s, ch) == IF s # <<>> /\ Head(s) = ch THEN lstrip(Tail(s), ch) ELSE s
\* str.strip(ch)
strip(s, ch) == lstrip(rstrip(s, ch), ch)
\* limited_chars, those among the modelled lexemes
limited_chars == {"/", ":"}
\* replace_limit_char(path, new_char): every limited character replaced,
\* then path.rstrip("."), then path.strip(" ")
replace_limit_char(path, new_char) ==
    strip(rstrip([k \in 1 .. Len(path) |->
                     IF path[k] \in limited_chars THEN new_char ELSE path[k]], "."), " ")
\* __fixPath__(name): replaceLimitChar(name, "-").strip()
fixPath(name) == strip(replace_limit_char(name, "-"), " ")
\* what follows retpath in the returned path
Suffix(kind) == IF kind = "track" THEN <<".ext">> ELSE IF kind = "video" THEN <<".mp4">> ELSE <<>>
\* one call of getTrackPath / getVideoPath / getAlbumPath
NoRender == [pc |-> "idle", kind |-> "track", tpl |-> <<>>, artist |-> <<>>, title |-> <<>>,
             retpath |-> <<>>, path |-> <<>>]

(* ------------------------------------------------------------ entry point *)
\* the download path: usable, an existing directory that cannot be written,
\* or a path that cannot be created
PathKinds == {"ok", "unwritable", "invalid"}
\* mkdirs(path): True when the path exists or could be created
mkdirs(path) == path # "invalid"
\* sys.argv as mainCommand reads it
NoArgs == [argv |-> FALSE, gui |-> FALSE, json |-> FALSE, link |-> FALSE, output |-> "none"]
Args ==
    {NoArgs} \cup
    [argv : {TRUE}, gui : BOOLEAN, json : BOOLEAN, link : BOOLEAN,
     output : PathKinds \cup {"none"}]
\* the fields of the dataclass Settings (config.py), those the model follows
SettingsFields == {"download_path", "multi_thread", "convert_flac", "verbose"}
\* the two attributes main.py reads and writes besides them
ProxyFields == {"http_proxy", "https_proxy"}
\* the attributes sync_modern_to_legacy_config copies, in its order
SyncOrder ==
    <<"download_path", "multi_thread", "convert_flac", "verbose", "http_proxy", "https_proxy">>
\* the keys settings.json can hold: none (no file), the fields, or the fields
\* and the proxies
FileKeys == {{}, SettingsFields, SettingsFields \cup ProxyFields}
\* Settings.from_dict(data): keys that are not fields are dropped; without a
\* file Settings() stands; either way the object has exactly the fields
from_dict(keys) == [attrs |-> SettingsFields, loaded |-> keys \cap SettingsFields]
\* one run of main(): net is the set of kinds of request made so far, attrs
\* the attributes of config_manager.settings, synced those copied into
\* SETTINGS, saved whether SETTINGS.save() has run, why how the run ended
NoApp == [pc |-> "idle", args |-> NoArgs, dest |-> "ok", token |-> FALSE,
          net |-> {}, turns |-> 0, file |-> {}, attrs |-> {}, synced |-> {},
          saved |-> FALSE, why |-> ""]

(* --------------------------------------------------------- flac_converter *)
\* a path of the converter: the part before the last dot, as lexemes, and the
\* extension
ConvPath(base, ext) == [base |-> base, ext |-> ext]
NoPath == ConvPath(<<>>, "")
\* "base = mp4_flac_path.rsplit('.', 1)[0]; output_path = f'{base}_proper.flac'"
DefaultOutput(p) == ConvPath(p.base \o <<"_proper">>, ".flac")
\* one call of extract_flac_with_metadata: its arguments, the bytes ffmpeg
\* gave, the source as it was at the call, and how the call ended
NoConverter ==
    [pc |-> "idle", src |-> NoPath, out |-> NoPath, buf |-> <<>>, orig |-> NoFile,
     ret |-> NoPath]

InitWith(S, B, P, St) ==
    /\ cfg \in S
    /\ batch \in B
    /\ provider \in [1 .. Len(batch.items) ->
                        IF batch.kind = "videos" THEN VideoStreams
                        ELSE {x \in St : x.len = 0 => x.sig = FlacSig}]
    /\ drv = [pc |-> "loop", idx |-> 1]
    /\ job = [i \in 1 .. Len(batch.items) |-> NewJob]
    /\ \E D \in SUBSET {<<PathFor(cfg, batch, k, k), "">> : k \in 1 .. Len(batch.items)} :
          fs \in [D -> P]
    /\ calls = [getAlbum |-> [a \in AlbumIds |-> 0], cover |-> [a \in AlbumIds |-> 0]]
    /\ ret = Returned("running")
    /\ render = NoRender
    /\ app = NoApp
    /\ converter = NoConverter

(* ------------------------------------------------------------ job helpers *)
Terminal(i) == job[i].pc \in {"done", "failed"}
Running(i) == job[i].pc \notin {"idle", "queued", "done", "failed"}
Set(i, r) == job' = [job EXCEPT ![i] = r]
\* the outer "except Exception as e: return False, str(e)" of downloadTrack
\* and downloadVideo, and their "return False, msg"; why is the step that failed
Failed(j, why, msg) == [j EXCEPT !.pc = "failed", !.why = why, !.res = Pair(FALSE, msg)]
IsTracks == batch.kind = "tracks"
\* tidal_dl.aigpy.string.isNull
isNull(k) == k \in {"None", ""}

(* ----------------------------------------------------------- downloadTrack *)
\* TIDAL_API.getStreamUrl and getTrackPath
Resolve(i) ==
    /\ IsTracks /\ job[i].pc = "start"
    /\ \/ Set(i, Failed(job[i], "api", ApiMsg))
       \/ Set(i, [job[i] EXCEPT !.pc = "check"])
    /\ UNCHANGED <<converter, render, app, cfg, batch, provider, drv, fs, calls, ret>>

\* _is_skip with the size test made strict
is_skip_strict(i) ==
    IF ~cfg.checkExist THEN FALSE
    ELSE IF getSize(fs, FinalPath(i)) <= 0 THEN FALSE
    ELSE getSize(fs, FinalPath(i)) > provider[i].len

\* _is_skip(finalpath, url)
is_skip(i) ==
    IF ~cfg.checkExist THEN FALSE
    ELSE IF getSize(fs, FinalPath(i)) <= 0 THEN FALSE
    ELSE getSize(fs, FinalPath(i)) >= provider[i].len

\* the check without the shortcut of the normal mode: an existing file gets
\* its metadata again whatever SETTINGS.verbose says
CheckExistNoShortcut(i) ==
    /\ IsTracks /\ job[i].pc = "check"
    /\ IF is_skip(i)
       THEN Set(i, [job[i] EXCEPT !.pc = "meta", !.exists = TRUE, !.skip = ~cfg.verbose])
       ELSE Set(i, [job[i] EXCEPT !.pc = "download", !.skip = FALSE])
    /\ UNCHANGED <<converter, render, app, cfg, batch, provider, drv, fs, calls, ret>>

\* the "check exist" branch of downloadTrack
CheckExist(i) ==
    /\ IsTracks /\ job[i].pc = "check"
    /\ IF is_skip(i)
       THEN IF ~cfg.verbose
            THEN Set(i, [job[i] EXCEPT !.pc = "conv", !.exists = TRUE, !.skip = TRUE])
            ELSE Set(i, [job[i] EXCEPT !.pc = "meta", !.exists = TRUE, !.skip = FALSE])
       ELSE Set(i, [job[i] EXCEPT !.pc = "download", !.skip = FALSE])
    /\ UNCHANGED <<converter, render, app, cfg, batch, provider, drv, fs, calls, ret>>

\* DownloadTool(path + ".part", stream.urls).start(): the temporary file is
\* created, then filled part by part
DownloadBegin(i) ==
    /\ IsTracks /\ job[i].pc = "download"
    /\ fs' = WriteFile(fs, PartPath(i), File(<<>>, "none"))
    /\ Set(i, [job[i] EXCEPT !.pc = "fetch", !.got = 0, !.eff = @ \cup {"xfer"}])
    /\ UNCHANGED <<converter, render, app, cfg, batch, provider, drv, calls, ret>>

DownloadPart(i) ==
    /\ IsTracks /\ job[i].pc = "fetch" /\ job[i].got < provider[i].len
    /\ fs' = WriteFile(fs, PartPath(i),
                File(Prefix(Served(provider[i].key, provider[i].sig, provider[i].len), job[i].got + 1), "none"))
    /\ Set(i, [job[i] EXCEPT !.got = @ + 1])
    /\ UNCHANGED <<converter, render, app, cfg, batch, provider, drv, calls, ret>>

\* the failed download is logged but the early return is missing
DownloadFailContinues(i) ==
    /\ IsTracks /\ job[i].pc = "fetch"
    /\ Set(i, [job[i] EXCEPT !.pc = "decrypt", !.why = "transport", !.got = 0])
    /\ UNCHANGED <<converter, render, app, cfg, batch, provider, drv, fs, calls, ret>>

\* "if not check: return False, str(err)"
DownloadFail(i) ==
    /\ IsTracks /\ job[i].pc = "fetch"
    /\ \E m \in TransportMsgs : Set(i, Failed(job[i], "transport", m))
    /\ UNCHANGED <<converter, render, app, cfg, batch, provider, drv, fs, calls, ret>>

DownloadDone(i) ==
    /\ IsTracks /\ job[i].pc = "fetch" /\ job[i].got = provider[i].len
    /\ Set(i, [job[i] EXCEPT !.pc = "decrypt", !.got = 0])
    /\ UNCHANGED <<converter, render, app, cfg, batch, provider, drv, fs, calls, ret>>

(* ------------------------------------------------------ _decrypt_if_needed *)
\* the isNull branch copies the temporary file instead of moving it
DecryptCopies(i) ==
    /\ IsTracks /\ job[i].pc = "decrypt"
    /\ IF isNull(provider[i].key)
       THEN IF Exists(fs, PartPath(i))
            THEN /\ fs' = WriteFile(fs, FinalPath(i), fs[PartPath(i)])
                 /\ Set(i, [job[i] EXCEPT !.pc = "meta", !.eff = @ \cup {"wfinal"}])
            ELSE /\ Set(i, Failed(job[i], "decrypt", "io"))
                 /\ fs' = fs
       ELSE /\ fs' = fs
            /\ IF provider[i].key = "badtoken"
               THEN Set(i, [Failed(job[i], "decrypt", "badtoken") EXCEPT !.eff = @ \cup {"decode"}])
               ELSE Set(i, [job[i] EXCEPT !.pc = "decfile", !.eff = @ \cup {"decode"}])
    /\ UNCHANGED <<converter, render, app, cfg, batch, provider, drv, calls, ret>>

\* the isNull branch (os.replace) and decrypt_security_token
Decrypt(i) ==
    /\ IsTracks /\ job[i].pc = "decrypt"
    /\ IF isNull(provider[i].key)
       THEN IF Exists(fs, PartPath(i))
            THEN /\ fs' = ReplaceFile(fs, PartPath(i), FinalPath(i))
                 /\ Set(i, [job[i] EXCEPT !.pc = "meta", !.eff = @ \cup {"wfinal"}])
            ELSE /\ Set(i, Failed(job[i], "decrypt", "io"))
                 /\ fs' = fs
       ELSE /\ fs' = fs
            /\ IF provider[i].key = "badtoken"
               THEN Set(i, [Failed(job[i], "decrypt", "badtoken") EXCEPT !.eff = @ \cup {"decode"}])
               ELSE Set(i, [job[i] EXCEPT !.pc = "decfile", !.eff = @ \cup {"decode"}])
    /\ UNCHANGED <<converter, render, app, cfg, batch, provider, drv, calls, ret>>

\* decrypt_file(srcPath, descPath, key, nonce): opens both files
DecryptOpen(i) ==
    /\ IsTracks /\ job[i].pc = "decfile"
    /\ IF Exists(fs, PartPath(i))
       THEN /\ fs' = WriteFile(fs, FinalPath(i), File(<<>>, "none"))
            /\ Set(i, [job[i] EXCEPT !.pc = "decwrite", !.got = 0,
                                     !.eff = @ \cup {"decrypt", "wfinal"}])
       ELSE /\ fs' = fs
            /\ Set(i, [Failed(job[i], "decrypt", "io") EXCEPT !.eff = @ \cup {"decrypt"}])
    /\ UNCHANGED <<converter, render, app, cfg, batch, provider, drv, calls, ret>>

\* decrypt_file: one streamed pass, plaintext written as it is recovered
DecryptChunk(i) ==
    /\ IsTracks /\ job[i].pc = "decwrite"
    /\ Exists(fs, PartPath(i)) /\ Exists(fs, FinalPath(i))
    /\ job[i].got < getSize(fs, PartPath(i))
    /\ fs' = WriteFile(fs, FinalPath(i),
                File(Append(fs[FinalPath(i)].data, DecByte(fs[PartPath(i)].data[job[i].got + 1])),
                     "none"))
    /\ Set(i, [job[i] EXCEPT !.got = @ + 1])
    /\ UNCHANGED <<converter, render, app, cfg, batch, provider, drv, calls, ret>>

\* decrypt_file raises part-way (corrupt ciphertext, I/O error)
DecryptFail(i) ==
    /\ IsTracks /\ job[i].pc = "decwrite"
    /\ \E m \in DecryptMsgs \ {"badtoken"} : Set(i, Failed(job[i], "decrypt", m))
    /\ UNCHANGED <<converter, render, app, cfg, batch, provider, drv, fs, calls, ret>>

\* decrypt_file returns and the encrypted file is left in place
DecryptDoneKeepsPart(i) ==
    /\ IsTracks /\ job[i].pc = "decwrite"
    /\ job[i].got >= getSize(fs, PartPath(i))
    /\ fs' = fs
    /\ Set(i, [job[i] EXCEPT !.pc = "meta", !.got = 0])
    /\ UNCHANGED <<converter, render, app, cfg, batch, provider, drv, calls, ret>>

\* decrypt_file returns; os.remove(srcPath)
DecryptDone(i) ==
    /\ IsTracks /\ job[i].pc = "decwrite"
    /\ job[i].got >= getSize(fs, PartPath(i))
    /\ IF Exists(fs, PartPath(i))
       THEN /\ fs' = RemoveFile(fs, PartPath(i))
            /\ Set(i, [job[i] EXCEPT !.pc = "meta", !.got = 0])
       ELSE /\ fs' = fs
            /\ Set(i, Failed(job[i], "decrypt", "io"))
    /\ UNCHANGED <<converter, render, app, cfg, batch, provider, drv, calls, ret>>

(* ------------------------------------------------------- metadata, lyrics *)
\* the two lookups outside their try/except: an exception of either reaches
\* the outer handler of downloadTrack
FetchMetaFatal(i) ==
    /\ IsTracks /\ job[i].pc = "meta"
    /\ LET a == provider[i].meta
           lrc == a = "ok" /\ cfg.lyricFile
       IN  /\ fs' = IF lrc THEN WriteFile(fs, LrcPath(i), File(<<>>, "lyrics")) ELSE fs
           /\ IF a = "ok"
              THEN Set(i, [job[i] EXCEPT !.pc = "tag",
                              !.eff = @ \cup {"contrib", "lyrics"} \cup (IF lrc THEN {"lrc"} ELSE {})])
              ELSE Set(i, [Failed(job[i], "meta", ApiMsg) EXCEPT !.eff = @ \cup {"contrib", a}])
    /\ UNCHANGED <<converter, render, app, cfg, batch, provider, drv, calls, ret>>

\* TIDAL_API.getTrackContributors and getLyrics, each in its own try/except
\* ("contributors = None", "lyrics = ''"); the lyrics go to the .lrc file when
\* SETTINGS.lyricFile is set
FetchMeta(i) ==
    /\ IsTracks /\ job[i].pc = "meta"
    /\ LET a == provider[i].meta
           lrc == a # "nolyrics" /\ cfg.lyricFile
       IN  /\ fs' = IF lrc THEN WriteFile(fs, LrcPath(i), File(<<>>, "lyrics")) ELSE fs
           /\ Set(i, [job[i] EXCEPT !.pc = "tag",
                          !.eff = @ \cup {"contrib", "lyrics"}
                                    \cup (IF a = "ok" THEN {} ELSE {a})
                                    \cup (IF lrc THEN {"lrc"} ELSE {})])
    /\ UNCHANGED <<converter, render, app, cfg, batch, provider, drv, calls, ret>>

\* _set_metadata outside any try/except: its exception reaches the outer
\* handler of downloadTrack
SetMetadataFatal(i) ==
    /\ IsTracks /\ job[i].pc = "tag"
    /\ \/ /\ Exists(fs, FinalPath(i))
          /\ fs' = WriteFile(fs, FinalPath(i), File(fs[FinalPath(i)].data, "tagged"))
          /\ Set(i, [job[i] EXCEPT !.pc = "conv", !.eff = @ \cup {"tag"}])
       \/ /\ fs' = fs
          /\ Set(i, [Failed(job[i], "tag", "io") EXCEPT !.eff = @ \cup {"tagfail"}])
    /\ UNCHANGED <<converter, render, app, cfg, batch, provider, drv, calls, ret>>

\* _set_metadata inside try/except: the tags are written, or it raises and
\* the failure is only logged
SetMetadata(i) ==
    /\ IsTracks /\ job[i].pc = "tag"
    /\ \/ /\ Exists(fs, FinalPath(i))
          /\ fs' = WriteFile(fs, FinalPath(i), File(fs[FinalPath(i)].data, "tagged"))
          /\ Set(i, [job[i] EXCEPT !.pc = "conv", !.eff = @ \cup {"tag"}])
       \/ /\ fs' = fs
          /\ Set(i, [job[i] EXCEPT !.pc = "conv", !.eff = @ \cup {"tagfail"}])
    /\ UNCHANGED <<converter, render, app, cfg, batch, provider, drv, calls, ret>>

(* -------------------------------------------------- _convert_flac_inplace *)
\* the policy test without the quality tier
ConvertWantedAnyQuality(i) == getTrackPath(i)[4] = ".flac" /\ cfg.convertFlac

\* the policy test of downloadTrack before the conversion
ConvertWanted(i) == getTrackPath(i)[4] = ".flac" /\ cfg.convertFlac /\ cfg.maxQuality

ConvertCheck(i) ==
    /\ IsTracks /\ job[i].pc = "conv"
    /\ Set(i, [job[i] EXCEPT !.pc = IF ConvertWanted(i) THEN "rprobe" ELSE "finish"])
    /\ UNCHANGED <<converter, render, app, cfg, batch, provider, drv, fs, calls, ret>>

\* ffmpeg -c:a copy -f flac: the audio stream in a native FLAC container
ToFlac(data) == IF Len(data) = 0 THEN <<>> ELSE <<FlacSig>> \o Tail(data)
RemuxReturn(j, ok) == [j EXCEPT !.pc = "finish", !.conv = IF ok THEN "ok" ELSE "failed", !.buf = <<>>]

\* step 0 left out: every file goes to mp4.MP4(file_path), which raises on a
\* file that is not an MP4 container
RemuxProbeNoSignature(i) ==
    /\ IsTracks /\ job[i].pc = "rprobe"
    /\ LET f == Content(fs, FinalPath(i))
           j == [job[i] EXCEPT !.orig = f, !.eff = @ \cup {"remux"}]
       IN  IF ~Exists(fs, FinalPath(i)) THEN Set(i, RemuxReturn(j, FALSE))
           ELSE \/ Set(i, RemuxReturn(j, FALSE))
                \/ /\ Len(f.data) >= 1 /\ f.data[1] = Mp4Sig
                   /\ Set(i, [j EXCEPT !.pc = "rffmpeg"])
    /\ UNCHANGED <<converter, render, app, cfg, batch, provider, drv, fs, calls, ret>>

\* step 0, the signature check, and step 1, mp4.MP4(file_path)
RemuxProbe(i) ==
    /\ IsTracks /\ job[i].pc = "rprobe"
    /\ LET f == Content(fs, FinalPath(i))
           j == [job[i] EXCEPT !.orig = f, !.eff = @ \cup {"remux"}]
       IN  IF ~Exists(fs, FinalPath(i)) THEN Set(i, RemuxReturn(j, FALSE))
           ELSE IF Len(f.data) >= 1 /\ f.data[1] = FlacSig THEN Set(i, RemuxReturn(j, TRUE))
           ELSE \/ Set(i, RemuxReturn(j, FALSE))
                \/ /\ Len(f.data) >= 1 /\ f.data[1] = Mp4Sig
                   /\ Set(i, [j EXCEPT !.pc = "rffmpeg"])
    /\ UNCHANGED <<converter, render, app, cfg, batch, provider, drv, fs, calls, ret>>

\* step 2, subprocess.run(["ffmpeg", ...], check=True)
RemuxExtract(i) ==
    /\ IsTracks /\ job[i].pc = "rffmpeg"
    /\ LET j == [job[i] EXCEPT !.eff = @ \cup {"ffmpeg"}]
       IN  \/ Set(i, RemuxReturn(j, FALSE))
           \/ /\ Exists(fs, FinalPath(i))
              /\ Set(i, [j EXCEPT !.pc = "rwrite", !.buf = ToFlac(fs[FinalPath(i)].data)])
    /\ UNCHANGED <<converter, render, app, cfg, batch, provider, drv, fs, calls, ret>>

\* step 3, open(file_path, "wb") and write: the file is truncated, then the
\* audio is written, all of it or (on an I/O error) a part of it
RemuxWrite(i) ==
    /\ IsTracks /\ job[i].pc = "rwrite"
    /\ \/ /\ fs' = WriteFile(fs, FinalPath(i), File(job[i].buf, "none"))
          /\ Set(i, [job[i] EXCEPT !.pc = "rtag"])
       \/ \E k \in 0 .. Len(job[i].buf) - 1 :
             /\ fs' = WriteFile(fs, FinalPath(i), File(Prefix(job[i].buf, k), "none"))
             /\ Set(i, RemuxReturn(job[i], FALSE))
    /\ UNCHANGED <<converter, render, app, cfg, batch, provider, drv, calls, ret>>

\* step 4, flac.FLAC(file_path) and the tag mapping; step 5, the cover read
RemuxTag(i) ==
    /\ IsTracks /\ job[i].pc = "rtag"
    /\ \/ Set(i, RemuxReturn(job[i], FALSE))
       \/ Set(i, [job[i] EXCEPT !.pc = "rsave",
                     !.eff = @ \cup (IF Exists(fs, SiblingCover(i)) THEN {"coverread"} ELSE {})])
    /\ UNCHANGED <<converter, render, app, cfg, batch, provider, drv, fs, calls, ret>>

\* flac_file.save()
RemuxSave(i) ==
    /\ IsTracks /\ job[i].pc = "rsave"
    /\ \/ /\ Exists(fs, FinalPath(i))
          /\ fs' = WriteFile(fs, FinalPath(i), File(fs[FinalPath(i)].data, "flac"))
          /\ Set(i, RemuxReturn(job[i], TRUE))
       \/ /\ fs' = fs
          /\ Set(i, RemuxReturn(job[i], FALSE))
    /\ UNCHANGED <<converter, render, app, cfg, batch, provider, drv, calls, ret>>

\* the conversion result decides the result of the item
FinishFailsOnRemux(i) ==
    /\ IsTracks /\ job[i].pc = "finish"
    /\ IF job[i].conv = "failed"
       THEN Set(i, Failed(job[i], "remux", "io"))
       ELSE Set(i, [job[i] EXCEPT !.pc = "done", !.res = Pair(TRUE, "")])
    /\ UNCHANGED <<converter, render, app, cfg, batch, provider, drv, fs, calls, ret>>

\* "return True, ''"
Finish(i) ==
    /\ IsTracks /\ job[i].pc = "finish"
    /\ Set(i, [job[i] EXCEPT !.pc = "done", !.res = Pair(TRUE, "")])
    /\ UNCHANGED <<converter, render, app, cfg, batch, provider, drv, fs, calls, ret>>

(* ----------------------------------------------------------- downloadVideo *)
IsVideos == batch.kind = "videos"

\* TIDAL_API.getVideoStreamUrl and getVideoPath
VResolve(i) ==
    /\ IsVideos /\ job[i].pc = "start"
    /\ \/ Set(i, Failed(job[i], "api", ApiMsg))
       \/ Set(i, [job[i] EXCEPT !.pc = "vmanifest"])
    /\ UNCHANGED <<converter, render, app, cfg, batch, provider, drv, fs, calls, ret>>

\* the empty-manifest test written "len(urls) < 0"
VManifestNoCheck(i) ==
    /\ IsVideos /\ job[i].pc = "vmanifest"
    /\ \/ \E m \in TransportMsgs : Set(i, Failed(job[i], "transport", m))
       \/ IF provider[i].len < 0
          THEN Set(i, Failed(job[i], "manifest", "GetTsUrls failed."))
          ELSE Set(i, [job[i] EXCEPT !.pc = "vfetch", !.got = 0])
    /\ UNCHANGED <<converter, render, app, cfg, batch, provider, drv, fs, calls, ret>>

\* requests.get(stream.m3u8Url).content and parseTsUrls; "if len(urls) <= 0"
VManifest(i) ==
    /\ IsVideos /\ job[i].pc = "vmanifest"
    /\ \/ \E m \in TransportMsgs : Set(i, Failed(job[i], "transport", m))
       \/ IF provider[i].len <= 0
          THEN Set(i, Failed(job[i], "manifest", "GetTsUrls failed."))
          ELSE Set(i, [job[i] EXCEPT !.pc = "vfetch", !.got = 0])
    /\ UNCHANGED <<converter, render, app, cfg, batch, provider, drv, fs, calls, ret>>

\* tidal_dl.aigpy.m3u8.downloadByTsUrls(urls, path): the segments are fetched
VFetch(i) ==
    /\ IsVideos /\ job[i].pc = "vfetch" /\ job[i].got < provider[i].len
    /\ Set(i, [job[i] EXCEPT !.got = @ + 1, !.eff = @ \cup {"seg"}])
    /\ UNCHANGED <<converter, render, app, cfg, batch, provider, drv, fs, calls, ret>>

\* a segment is unfetchable: "return False, msg"
VFetchFail(i) ==
    /\ IsVideos /\ job[i].pc = "vfetch" /\ job[i].got < provider[i].len
    /\ \E m \in TransportMsgs :
          Set(i, [Failed(job[i], "transport", m) EXCEPT !.eff = @ \cup {"seg"}])
    /\ UNCHANGED <<converter, render, app, cfg, batch, provider, drv, fs, calls, ret>>

\* the segments are appended in manifest order; "return True"
VAssemble(i) ==
    /\ IsVideos /\ job[i].pc = "vfetch" /\ job[i].got = provider[i].len
    /\ fs' = WriteFile(fs, FinalPath(i), File(Asset(Mp4Sig, provider[i].len), "none"))
    /\ Set(i, [job[i] EXCEPT !.pc = "done", !.res = Bare(TRUE), !.eff = @ \cup {"wfinal"}])
    /\ UNCHANGED <<converter, render, app, cfg, batch, provider, drv, calls, ret>>

(* ------------------------------------------ downloadTracks, downloadVideos *)
Threaded == IsTracks /\ cfg.multiThread
\* the loop moves to its next item, or past its last one
Advance ==
    IF drv.idx < N THEN [pc |-> "loop", idx |-> drv.idx + 1]
    ELSE [pc |-> IF Threaded THEN "shutdown" ELSE "done", idx |-> drv.idx + 1]
CoverWanted == cfg.saveCovers /\ ~cfg.usePlaylistFolder
CoverImage == <<0, 0>>

\* __getAlbum__(item) without "item.trackNumberOnPlaylist = index + 1"
DrvGetAlbumNoNumber ==
    /\ IsTracks /\ drv.pc = "loop" /\ batch.mode = "playlist"
    /\ LET a == AlbumOfTrack(TrackOf(drv.idx))
       IN  \/ /\ calls' = [calls EXCEPT !.getAlbum[a] = @ + 1]
              /\ drv' = [drv EXCEPT !.pc = "raised"]
              /\ ret' = Returned("raised")
              /\ UNCHANGED <<fs, job>>
           \/ /\ ret' = ret
              /\ job' = job
              /\ IF CoverWanted
                 THEN /\ calls' = [calls EXCEPT !.getAlbum[a] = @ + 1, !.cover[a] = @ + 1]
                      /\ fs' = WriteFile(fs, CoverPath(a), File(<<>>, "none"))
                      /\ drv' = [drv EXCEPT !.pc = "cover"]
                 ELSE /\ calls' = [calls EXCEPT !.getAlbum[a] = @ + 1]
                      /\ fs' = fs
                      /\ drv' = [drv EXCEPT !.pc = "call"]
    /\ UNCHANGED <<converter, render, app, cfg, batch, provider>>

\* __getAlbum__(item): TIDAL_API.getAlbum, then downloadCover begins
DrvGetAlbum ==
    /\ IsTracks /\ drv.pc = "loop" /\ batch.mode = "playlist"
    /\ LET a == AlbumOfTrack(TrackOf(drv.idx))
       IN  \/ /\ calls' = [calls EXCEPT !.getAlbum[a] = @ + 1]
              /\ drv' = [drv EXCEPT !.pc = "raised"]
              /\ ret' = Returned("raised")
              /\ UNCHANGED <<fs, job>>
           \/ /\ ret' = ret
              /\ IF CoverWanted
                 THEN /\ calls' = [calls EXCEPT !.getAlbum[a] = @ + 1, !.cover[a] = @ + 1]
                      /\ fs' = WriteFile(fs, CoverPath(a), File(<<>>, "none"))
                      /\ drv' = [drv EXCEPT !.pc = "cover"]
                      /\ job' = job
                 ELSE /\ calls' = [calls EXCEPT !.getAlbum[a] = @ + 1]
                      /\ fs' = fs
                      /\ drv' = [drv EXCEPT !.pc = "call"]
                      /\ job' = [job EXCEPT ![drv.idx].num = drv.idx]
    /\ UNCHANGED <<converter, render, app, cfg, batch, provider>>

\* tidal_dl.aigpy.net.downloadFile(url, path) ends, the cover complete or not;
\* then "item.trackNumberOnPlaylist = index + 1"
DrvCoverDone ==
    /\ IsTracks /\ drv.pc = "cover"
    /\ \/ fs' = WriteFile(fs, CoverPath(AlbumOfTrack(TrackOf(drv.idx))), File(CoverImage, "none"))
       \/ fs' = fs
    /\ drv' = [drv EXCEPT !.pc = "call"]
    /\ job' = [job EXCEPT ![drv.idx].num = drv.idx]
    /\ UNCHANGED <<converter, render, app, cfg, batch, provider, calls, ret>>

\* downloadTrack(item, itemAlbum, playlist) is called, or submitted to the pool
DrvCall ==
    /\ drv.pc = "call" \/ (drv.pc = "loop" /\ batch.mode = "album")
    /\ IF Threaded
       THEN /\ job' = [job EXCEPT ![drv.idx].pc = "queued"]
            /\ drv' = Advance
       ELSE /\ job' = [job EXCEPT ![drv.idx].pc = "start"]
            /\ drv' = [drv EXCEPT !.pc = "wait"]
    /\ UNCHANGED <<converter, render, app, cfg, batch, provider, fs, calls, ret>>

\* the sequential call returns; its return value is not kept
DrvReturn ==
    /\ drv.pc = "wait" /\ Terminal(drv.idx)
    /\ drv' = Advance
    /\ ret' = IF drv.idx < N THEN ret ELSE Returned("None")
    /\ UNCHANGED <<converter, render, app, cfg, batch, provider, job, fs, calls>>

\* thread_pool.shutdown(wait=True)
DrvShutdown ==
    /\ drv.pc = "shutdown" /\ \A i \in Items : Terminal(i)
    /\ drv' = [drv EXCEPT !.pc = "done"]
    /\ ret' = Returned("None")
    /\ UNCHANGED <<converter, render, app, cfg, batch, provider, job, fs, calls>>

\* a pool without a limit on its workers
JobStartUnbounded(i) ==
    /\ job[i].pc = "queued"
    /\ \A k \in 1 .. i - 1 : job[k].pc # "queued"
    /\ Set(i, [job[i] EXCEPT !.pc = "start"])
    /\ UNCHANGED <<converter, render, app, cfg, batch, provider, drv, fs, calls, ret>>

\* a pool worker takes the oldest queued call
JobStart(i) ==
    /\ job[i].pc = "queued"
    /\ \A k \in 1 .. i - 1 : job[k].pc # "queued"
    /\ Cardinality({k \in Items : Running(k)}) < MaxWorkers
    /\ Set(i, [job[i] EXCEPT !.pc = "start"])
    /\ UNCHANGED <<converter, render, app, cfg, batch, provider, drv, fs, calls, ret>>

(* ------------------------------------------- downloadTrack as one step *)
\* One whole call of downloadTrack for a stream without a key and a path the
\* conversion test rejects, with one representative of each way it ends: it
\* is skipped, fails at getStreamUrl, fails in the transfer (the temporary
\* file is left), or downloads, renames and tags the file, and returns.
downloadTrack(i) ==
    /\ IsTracks /\ job[i].pc = "start"
    /\ isNull(provider[i].key) /\ ~ConvertWanted(i) /\ ~cfg.verbose
    /\ LET whole == Served(provider[i].key, provider[i].sig, provider[i].len)
       IN  IF is_skip(i)
           THEN /\ fs' = fs
                /\ Set(i, [job[i] EXCEPT !.pc = "done", !.exists = TRUE, !.skip = TRUE,
                                         !.res = Pair(TRUE, "")])
           ELSE \/ /\ fs' = fs
                   /\ Set(i, Failed(job[i], "api", ApiMsg))
                \/ /\ fs' = WriteFile(fs, PartPath(i), File(<<>>, "none"))
                   /\ Set(i, Failed(job[i], "transport", "net"))
                \/ /\ fs' = WriteFile(RemoveFile(fs, PartPath(i)), FinalPath(i), File(whole, "tagged"))
                   /\ Set(i, [job[i] EXCEPT !.pc = "done", !.res = Pair(TRUE, "")])
    /\ UNCHANGED <<converter, render, app, cfg, batch, provider, drv, calls, ret>>

(* ------------------------------ getTrackPath, getVideoPath, getAlbumPath *)
\* "retpath = SETTINGS.<kind>Format", or the default when it is unset
LoadFormat ==
    /\ render.pc = "start"
    /\ render' = [render EXCEPT !.pc = "artist",
                     !.retpath = IF Len(render.tpl) <= 0 THEN getDefaultPathFormat(render.kind)
                                 ELSE render.tpl]
    /\ UNCHANGED <<converter, app, cfg, batch, provider, drv, job, fs, calls, ret>>

\* retpath = retpath.replace("{ArtistName}", artist)
ReplaceArtistName ==
    /\ render.pc = "artist"
    /\ render' = [render EXCEPT !.pc = "title",
                     !.retpath = Replace(@, Token("ArtistName"), fixPath(render.artist))]
    /\ UNCHANGED <<converter, app, cfg, batch, provider, drv, job, fs, calls, ret>>

\* the chain without its replace of "{AlbumTitle}"
ReplaceAlbumTitleSkipped ==
    /\ render.pc = "title"
    /\ render' = [render EXCEPT !.pc = "duration"]
    /\ UNCHANGED <<converter, app, cfg, batch, provider, drv, job, fs, calls, ret>>

\* retpath = retpath.replace("{AlbumTitle}", albumName)
ReplaceAlbumTitle ==
    /\ render.pc = "title"
    /\ render' = [render EXCEPT !.pc = "duration",
                     !.retpath = Replace(@, Token("AlbumTitle"), fixPath(render.title))]
    /\ UNCHANGED <<converter, app, cfg, batch, provider, drv, job, fs, calls, ret>>

\* retpath = retpath.replace("{Duration}", __getDurationStr__(duration)), in
\* getTrackPath and getAlbumPath
ReplaceDuration ==
    /\ render.pc = "duration"
    /\ render' = [render EXCEPT !.pc = "return",
                     !.retpath = IF render.kind = "video" THEN @
                                 ELSE Replace(@, Token("Duration"),
                                              getDurationStr(DurationOf(render.kind)))]
    /\ UNCHANGED <<converter, app, cfg, batch, provider, drv, job, fs, calls, ret>>

\* retpath.strip(), then f"{base}/{retpath}{extension}": the part of the
\* path after base
RenderReturn ==
    /\ render.pc = "return"
    /\ render' = [render EXCEPT !.pc = "done",
                     !.path = strip(render.retpath, " ") \o Suffix(render.kind)]
    /\ UNCHANGED <<converter, app, cfg, batch, provider, drv, job, fs, calls, ret>>

(* --------------------------------------------------- main and mainCommand *)
\* a request of kind k goes out while the download path is app.dest
Request(a, ks) == [a EXCEPT !.net = @ \cup {<<k, a.dest>> : k \in ks}]

\* main(): SETTINGS.read, TOKEN.read, ConfigManager().load_settings()
Main ==
    /\ app.pc = "main"
    /\ app' = [app EXCEPT !.pc = "sync", !.attrs = from_dict(app.file).attrs]
    /\ UNCHANGED <<converter, render, cfg, batch, provider, drv, job, fs, calls, ret>>

\* the attributes of SyncOrder before the first one the object lacks
Copied(attrs) ==
    {SyncOrder[k] : k \in {j \in 1 .. Len(SyncOrder) :
                              \A h \in 1 .. j : SyncOrder[h] \in attrs}}

\* sync_modern_to_legacy_config(config_manager): one attribute after the
\* other is read from config_manager.settings and assigned to SETTINGS, then
\* SETTINGS.save(); reading an attribute the object lacks raises
\* AttributeError, which main() does not catch
sync_modern_to_legacy_config ==
    /\ app.pc = "sync"
    /\ app' = IF \A k \in 1 .. Len(SyncOrder) : SyncOrder[k] \in app.attrs
              THEN [app EXCEPT !.pc = "dispatch", !.synced = Copied(app.attrs),
                               !.saved = TRUE]
              ELSE [app EXCEPT !.pc = "raised", !.synced = Copied(app.attrs),
                               !.why = "AttributeError"]
    /\ UNCHANGED <<converter, render, cfg, batch, provider, drv, job, fs, calls, ret>>

\* main(): "if len(sys.argv) > 1: mainCommand()", else the interactive mode
Dispatch ==
    /\ app.pc = "dispatch"
    /\ app' = [app EXCEPT !.pc = IF app.args.argv THEN "cmd" ELSE "login"]
    /\ UNCHANGED <<converter, render, cfg, batch, provider, drv, job, fs, calls, ret>>

\* mainCommand: --gui returns; --output sets the download path
CmdOptions ==
    /\ app.pc = "cmd"
    /\ app' = IF app.args.gui THEN [app EXCEPT !.pc = "exit"]
              ELSE [app EXCEPT !.pc = "json",
                       !.dest = IF app.args.output # "none" THEN app.args.output ELSE @]
    /\ UNCHANGED <<converter, render, cfg, batch, provider, drv, job, fs, calls, ret>>

\* mainCommand, JSON mode: loginByConfig(True), TIDAL_API.getByString(link)
CmdJson ==
    /\ app.pc = "json"
    /\ app' = IF app.args.json /\ app.args.link
              THEN IF ~app.token THEN [Request(app, {"login"}) EXCEPT !.pc = "exit"]
                   ELSE [Request(app, {"login", "lookup"}) EXCEPT !.pc = "exit"]
              ELSE IF app.args.json THEN [app EXCEPT !.pc = "exit"]
              ELSE [app EXCEPT !.pc = "validate"]
    /\ UNCHANGED <<converter, render, cfg, batch, provider, drv, job, fs, calls, ret>>

\* mainCommand: "if not mkdirs(download_path): error(...); return"
CmdValidate ==
    /\ app.pc = "validate"
    /\ app' = IF ~mkdirs(app.dest) THEN [app EXCEPT !.pc = "exit", !.why = "path"]
              ELSE [app EXCEPT !.pc = "download"]
    /\ UNCHANGED <<converter, render, cfg, batch, provider, drv, job, fs, calls, ret>>

\* mainCommand: loginByConfig() or loginByWeb(), then start(args.link)
CmdDownload ==
    /\ app.pc = "download"
    /\ app' = IF app.args.link
              THEN [Request(app, {"login", "lookup", "download"}) EXCEPT !.pc = "exit"]
              ELSE [app EXCEPT !.pc = "exit"]
    /\ UNCHANGED <<converter, render, cfg, batch, provider, drv, job, fs, calls, ret>>

\* main(), interactive mode: loginByConfig() or loginByWeb()
IntLogin ==
    /\ app.pc = "login"
    /\ app' = [Request(app, {"login"}) EXCEPT !.pc = "menu"]
    /\ UNCHANGED <<converter, render, cfg, batch, provider, drv, job, fs, calls, ret>>

\* main(), the menu loop: "0" returns, "1" logs in, "4" changes the path
\* settings, any other text is handed to start(choice)
IntChoice ==
    /\ app.pc = "menu"
    /\ \/ app' = [app EXCEPT !.pc = "exit"]
       \/ /\ app.turns < MaxTurns
          /\ \/ app' = [Request(app, {"login"}) EXCEPT !.turns = @ + 1]
             \/ \E d \in PathKinds : app' = [app EXCEPT !.dest = d, !.turns = @ + 1]
             \/ app' = [Request(app, {"lookup", "download"}) EXCEPT !.turns = @ + 1]
    /\ UNCHANGED <<converter, render, cfg, batch, provider, drv, job, fs, calls, ret>>

(* ---------------------------------------------------------- specification *)
\* Spec: batches of up to MaxTracks items under every batch-level setting,
(* ------------------------------------------- extract_flac_with_metadata *)
\* "if output_path is None": the default output path
ConvDefault ==
    /\ converter.pc = "call"
    /\ converter' = [converter EXCEPT !.pc = "ffmpeg",
                        !.out = IF converter.out = NoPath THEN DefaultOutput(converter.src)
                                ELSE converter.out]
    /\ UNCHANGED <<render, app, cfg, batch, provider, drv, job, fs, calls, ret>>

\* step 1, subprocess.run(["ffmpeg", "-i", mp4_flac_path, ..., "-"],
\* check=True, capture_output=True): the audio in memory, or
\* CalledProcessError
ConvFfmpeg ==
    /\ converter.pc = "ffmpeg"
    /\ \/ converter' = [converter EXCEPT !.pc = "except"]
       \/ /\ getSize(fs, converter.src) > 0
          /\ converter' = [converter EXCEPT !.pc = "write", !.buf = ToFlac(fs[converter.src].data)]
    /\ UNCHANGED <<render, app, cfg, batch, provider, drv, job, fs, calls, ret>>

\* step 2, open(output_path, "wb") and write: the file is truncated, then
\* the audio is written, all of it or (on an I/O error) a part of it
ConvWrite ==
    /\ converter.pc = "write"
    /\ \/ /\ fs' = WriteFile(fs, converter.out, File(converter.buf, "none"))
          /\ converter' = [converter EXCEPT !.pc = "readmp4"]
       \/ \E k \in 0 .. Len(converter.buf) - 1 :
             /\ fs' = WriteFile(fs, converter.out, File(Prefix(converter.buf, k), "none"))
             /\ converter' = [converter EXCEPT !.pc = "except"]
    /\ UNCHANGED <<render, app, cfg, batch, provider, drv, job, calls, ret>>

\* step 3, mp4.MP4(mp4_flac_path), which raises on a file that is not an MP4
\* container; step 4, flac.FLAC(output_path) and the tag mapping
ConvReadTags ==
    /\ converter.pc = "readmp4"
    /\ LET f == Content(fs, converter.src)
       IN  IF Len(f.data) >= 1 /\ f.data[1] = Mp4Sig
           THEN \/ converter' = [converter EXCEPT !.pc = "save"]
                \/ converter' = [converter EXCEPT !.pc = "except"]
           ELSE converter' = [converter EXCEPT !.pc = "except"]
    /\ UNCHANGED <<render, app, cfg, batch, provider, drv, job, fs, calls, ret>>

\* flac_file.save() and "return output_path"
ConvSave ==
    /\ converter.pc = "save"
    /\ \/ /\ Exists(fs, converter.out)
          /\ fs' = WriteFile(fs, converter.out, File(fs[converter.out].data, "flac"))
          /\ converter' = [converter EXCEPT !.pc = "returned", !.ret = converter.out]
       \/ /\ fs' = fs
          /\ converter' = [converter EXCEPT !.pc = "except"]
    /\ UNCHANGED <<render, app, cfg, batch, provider, drv, job, calls, ret>>

\* both except clauses: "if os.path.exists(output_path):
\* os.remove(output_path)", then "raise"
ConvExcept ==
    /\ converter.pc = "except"
    /\ fs' = IF Exists(fs, converter.out) THEN RemoveFile(fs, converter.out) ELSE fs
    /\ converter' = [converter EXCEPT !.pc = "raised"]
    /\ UNCHANGED <<render, app, cfg, batch, provider, drv, job, calls, ret>>

\* the per-item settings at their defaults (config.py), two streams and a
\* download folder that starts empty
BatchSettings ==
    {c \in Settings : c.checkExist /\ ~c.verbose /\ c.convertFlac /\ c.maxQuality}
BatchStreams == {x \in Streams : x.key \in {"None", "token"} /\ x.sig = Mp4Sig /\ x.len = 1}
Init == InitWith(BatchSettings, Batches, {}, BatchStreams)

\* SpecItem: one item, under every setting, stream and earlier file
SingleBatches == {b \in Batches : Len(b.items) = 1}
InitItem == InitWith(Settings, SingleBatches, PriorFiles, Streams)

Next ==
    \/ DrvGetAlbum
    \/ DrvCoverDone
    \/ DrvCall
    \/ DrvReturn
    \/ DrvShutdown
    \/ \E i \in Items : JobStart(i)
    \/ \E i \in Items : Resolve(i)
    \/ \E i \in Items : CheckExist(i)
    \/ \E i \in Items : DownloadBegin(i)
    \/ \E i \in Items : DownloadPart(i)
    \/ \E i \in Items : DownloadFail(i)
    \/ \E i \in Items : DownloadDone(i)
    \/ \E i \in Items : Decrypt(i)
    \/ \E i \in Items : DecryptOpen(i)
    \/ \E i \in Items : DecryptChunk(i)
    \/ \E i \in Items : DecryptFail(i)
    \/ \E i \in Items : DecryptDone(i)
    \/ \E i \in Items : FetchMeta(i)
    \/ \E i \in Items : SetMetadata(i)
    \/ \E i \in Items : ConvertCheck(i)
    \/ \E i \in Items : RemuxProbe(i)
    \/ \E i \in Items : RemuxExtract(i)
    \/ \E i \in Items : RemuxWrite(i)
    \/ \E i \in Items : RemuxTag(i)
    \/ \E i \in Items : RemuxSave(i)
    \/ \E i \in Items : Finish(i)
    \/ \E i \in Items : VResolve(i)
    \/ \E i \in Items : VManifest(i)
    \/ \E i \in Items : VFetch(i)
    \/ \E i \in Items : VFetchFail(i)
    \/ \E i \in Items : VAssemble(i)

Spec == Init /\ [][Next]_vars

SpecItem == InitItem /\ [][Next]_vars

\* SpecTrack: one call of downloadTrack for a track of an album, sequential,
\* with the lyric file on or off, every answer of the metadata lookups, and
\* a download folder in which an earlier run may have left the final file,
\* the temporary file, or both
TrackSettings ==
    [multiThread : {FALSE}, checkExist : BOOLEAN, verbose : BOOLEAN,
     convertFlac : {TRUE}, maxQuality : BOOLEAN,
     saveCovers : {FALSE}, usePlaylistFolder : {FALSE}, lyricFile : BOOLEAN]
TrackStreams == {[x EXCEPT !.meta = m] : x \in Streams, m \in MetaAnswers}
TrackBatches == {b \in SingleBatches : b.kind = "tracks" /\ b.mode = "album"}
\* what a failed run leaves under the temporary name: nothing yet, or the
\* first byte of a download
PriorParts == {File(<<>>, "none"), File(<<Mp4Sig>>, "none")}
InitTrack ==
    /\ cfg \in TrackSettings
    /\ batch \in TrackBatches
    /\ provider \in [{1} -> {x \in TrackStreams : x.len = 0 => x.sig = FlacSig}]
    /\ drv = [pc |-> "loop", idx |-> 1]
    /\ job = [i \in {1} |-> NewJob]
    /\ \E F \in PriorFiles \cup {NoFile}, P \in PriorParts \cup {NoFile} :
          LET final == <<PathFor(cfg, batch, 1, 1), "">>
              part == <<PathFor(cfg, batch, 1, 1), ".part">>
          IN  fs = [p \in (IF F = NoFile THEN {} ELSE {final}) \cup
                          (IF P = NoFile THEN {} ELSE {part}) |->
                       IF p = final THEN F ELSE P]
    /\ calls = [getAlbum |-> [a \in AlbumIds |-> 0], cover |-> [a \in AlbumIds |-> 0]]
    /\ ret = Returned("running")
    /\ render = NoRender
    /\ app = NoApp
    /\ converter = NoConverter
NextTrack ==
    \/ DrvCall
    \/ DrvReturn
    \/ Resolve(1)
    \/ CheckExist(1)
    \/ DownloadBegin(1)
    \/ DownloadPart(1)
    \/ DownloadFail(1)
    \/ DownloadDone(1)
    \/ Decrypt(1)
    \/ DecryptOpen(1)
    \/ DecryptChunk(1)
    \/ DecryptFail(1)
    \/ DecryptDone(1)
    \/ FetchMeta(1)
    \/ SetMetadata(1)
    \/ ConvertCheck(1)
    \/ RemuxProbe(1)
    \/ RemuxExtract(1)
    \/ RemuxWrite(1)
    \/ RemuxTag(1)
    \/ RemuxSave(1)
    \/ Finish(1)
SpecTrack == InitTrack /\ [][NextTrack]_vars

\* SpecPool: playlists of up to MaxPool tracks handed to downloadTracks, each
\* call of downloadTrack taken as one step
PoolSettings ==
    {c \in Settings : c.checkExist /\ ~c.verbose /\ ~c.convertFlac /\ c.maxQuality}
PoolStreams == {x \in Streams : x.key = "None" /\ x.sig = Mp4Sig /\ x.len = 1}
PoolBatches ==
    {[kind |-> "tracks", mode |-> "playlist", album |-> 0,
      items |-> [k \in 1 .. n |-> ((k - 1) % Cardinality(TrackIds)) + 1]] : n \in 1 .. MaxPool}
InitPool == InitWith(PoolSettings, PoolBatches, {}, PoolStreams)
NextPool ==
    \/ DrvGetAlbum
    \/ DrvCoverDone
    \/ DrvCall
    \/ DrvReturn
    \/ DrvShutdown
    \/ \E i \in Items : JobStart(i)
    \/ \E i \in Items : downloadTrack(i)
SpecPool == InitPool /\ [][NextPool]_vars

\* SpecPoolFair: the same batches with the scheduling the interpreter gives:
\* the submitting thread goes on while it can, and a worker of the pool that
\* can take or finish an item does so
SpecPoolFair ==
    /\ InitPool /\ [][NextPool]_vars
    /\ WF_vars(DrvGetAlbum \/ DrvCoverDone \/ DrvCall \/ DrvReturn \/ DrvShutdown)
    /\ WF_vars(\E i \in Items : JobStart(i) \/ downloadTrack(i))

\* the download manager at rest, for the specifications of the other modules
AtRest ==
    /\ cfg = [multiThread |-> FALSE, checkExist |-> TRUE, verbose |-> FALSE,
              convertFlac |-> TRUE, maxQuality |-> TRUE,
              saveCovers |-> TRUE, usePlaylistFolder |-> TRUE, lyricFile |-> FALSE]
    /\ batch = [kind |-> "tracks", mode |-> "album", album |-> 1, items |-> <<1>>]
    /\ provider = [i \in {1} |-> [key |-> "None", sig |-> FlacSig, len |-> 0, meta |-> "ok"]]
    /\ drv = [pc |-> "loop", idx |-> 1]
    /\ job = [i \in {1} |-> NewJob]
    /\ calls = [getAlbum |-> [a \in AlbumIds |-> 0], cover |-> [a \in AlbumIds |-> 0]]
    /\ ret = Returned("running")
\* and its download folder empty
Parked == AtRest /\ fs \in [{} -> {NoFile}]

\* SpecRender: one call of a path function for every format, of up to
\* MaxParts parts, and every pair of values
InitRender ==
    /\ Parked
    /\ app = NoApp
    /\ converter = NoConverter
    /\ render \in [pc : {"start"}, kind : {"track", "video", "album"}, tpl : Templates,
                    artist : Values, title : Values, retpath : {<<>>}, path : {<<>>}]
NextRender ==
    \/ LoadFormat
    \/ ReplaceArtistName
    \/ ReplaceAlbumTitle
    \/ ReplaceDuration
    \/ RenderReturn
SpecRender == InitRender /\ [][NextRender]_vars

\* SpecConverter: one call of extract_flac_with_metadata with the source
\* a.flac and no output path, another path, or the path of the source, for
\* every source file and every file already under the output path
InitConverter ==
    /\ AtRest
    /\ render = NoRender
    /\ app = NoApp
    /\ \E s \in {ConvPath(<<"a">>, ".flac")},
          o \in {NoPath, ConvPath(<<"b">>, ".flac"), ConvPath(<<"a">>, ".flac")},
          F \in (PriorFiles \ {File(<<>>, "none")}) \cup {NoFile},
          G \in (PriorFiles \ {File(<<>>, "none")}) \cup {NoFile} :
          LET target == IF o = NoPath THEN DefaultOutput(s) ELSE o
          IN  /\ fs = [p \in (IF F = NoFile THEN {} ELSE {s}) \cup
                              (IF G = NoFile \/ target = s THEN {} ELSE {target}) |->
                          IF p = s THEN F ELSE G]
              /\ converter = [NoConverter EXCEPT !.pc = "call", !.src = s, !.out = o, !.orig = F]
NextConverter ==
    \/ ConvDefault
    \/ ConvFfmpeg
    \/ ConvWrite
    \/ ConvReadTags
    \/ ConvSave
    \/ ConvExcept
SpecConverter == InitConverter /\ [][NextConverter]_vars

\* SpecMain: one run of main() for every command line, download path,
\* stored login and settings file. The start-up sync raises in every run, so
\* the run ends there.
InitMain ==
    /\ Parked
    /\ render = NoRender
    /\ converter = NoConverter
    /\ app \in [pc : {"main"}, args : Args, dest : PathKinds, token : BOOLEAN,
                 net : {{}}, turns : {0}, file : FileKeys, attrs : {{}}, synced : {{}},
                 saved : {FALSE}, why : {""}]
NextMain ==
    \/ Main
    \/ sync_modern_to_legacy_config
SpecMain == InitMain /\ [][NextMain]_vars

\* SpecCommand: what main() and mainCommand do behind the start-up sync,
\* from the state a sync that returned would leave. No run of SpecMain
\* reaches that state.
InitCommand ==
    /\ Parked
    /\ render = NoRender
    /\ converter = NoConverter
    /\ app \in [pc : {"dispatch"}, args : Args, dest : PathKinds, token : BOOLEAN,
                 net : {{}}, turns : {0}, file : FileKeys,
                 attrs : {SettingsFields \cup ProxyFields},
                 synced : {SettingsFields \cup ProxyFields}, saved : {TRUE}, why : {""}]
NextCommand ==
    \/ Dispatch
    \/ CmdOptions
    \/ CmdJson
    \/ CmdValidate
    \/ CmdDownload
    \/ IntLogin
    \/ IntChoice
SpecCommand == InitCommand /\ [][NextCommand]_vars

(* ----------------------------------------------------------------- claims *)
\* the steps of downloadTrack after the download
LaterEffects == {"decode", "decrypt", "wfinal", "contrib", "lyrics", "tag", "remux", "ffmpeg", "coverread"}
\* _decrypt_if_needed has returned for job i: the asset is fetched and, when
\* the stream carries a key, decrypted
DecryptReturned(i) ==
    job[i].pc \in {"meta", "tag", "conv", "rprobe", "rffmpeg", "rwrite", "rtag", "rsave", "finish", "done"}

\* C1: a track job that has written under its final path has fetched the whole
\* asset and, when the stream carries a key, has finished decrypting it.
C1_FinalWrittenOnlyWhenComplete ==
    \A i \in Items :
        (IsTracks /\ "wfinal" \in job[i].eff) => DecryptReturned(i)

\* C2: when _convert_flac_inplace has just returned False, the file holds
\* exactly what it held when the conversion was called.
C2_RemuxFailureKeepsFile ==
    \A i \in Items :
        (IsTracks /\ job[i].pc = "finish" /\ job[i].conv = "failed") =>
            Content(fs, FinalPath(i)) = job[i].orig

\* C3: once the batch function has ended, every item other than one that
\* failed has been handed to its download (called or submitted).
C3_SiblingsProcessed ==
    drv.pc \in {"done", "raised"} =>
        \A k \in Items : k # drv.idx => job[k].pc # "idle"

\* C4: a batch that has returned reports to its caller how many items failed
\* and how many succeeded.
C4_BatchReportsCounts ==
    drv.pc = "done" =>
        /\ ret.shape = "counts"
        /\ ret.failed = Cardinality({i \in Items : job[i].pc = "failed"})
        /\ ret.succeeded = Cardinality({i \in Items : job[i].pc = "done"})

\* C5: in one batch run TIDAL_API.getAlbum is called, and the cover is
\* downloaded, at most once per album.
C5_AlbumResolvedOnce ==
    \A a \in AlbumIds : calls.getAlbum[a] <= 1 /\ calls.cover[a] <= 1

\* the condition of C6 as the claim states it: the destination exists and is
\* at least as large as the remote asset, and skip-on-exists is enabled
SkipCondition(i) ==
    /\ cfg.checkExist
    /\ Exists(fs, FinalPath(i))
    /\ Len(fs[FinalPath(i)].data) >= provider[i].len

\* C6 as claimed: under that condition, for every pair of sizes including 0,
\* no transfer is about to start.
C6_SkipForEverySize ==
    \A i \in Items : (IsTracks /\ job[i].pc = "download") => ~SkipCondition(i)

\* C6 as amended: under that condition and a local size above 0 no transfer
\* is started, and the job that found its file never transfers and never
\* fails: it ends with (True, "").
C6_SkipWhenNotEmpty ==
    \A i \in Items :
        IsTracks =>
            /\ job[i].pc = "download" =>
                  ~(SkipCondition(i) /\ Len(fs[FinalPath(i)].data) > 0)
            /\ job[i].exists =>
                  /\ "xfer" \notin job[i].eff
                  /\ job[i].pc # "failed"
                  /\ job[i].pc = "done" => job[i].res = Pair(TRUE, "")

C6_Witness ==
    \E i \in Items :
        /\ IsTracks /\ job[i].exists /\ job[i].pc = "done"
        /\ Exists(fs, FinalPath(i))
        /\ Len(fs[FinalPath(i)].data) = provider[i].len

\* C7: a track whose part download failed has returned (False, err) with the
\* transport error, and has done no decryption, tagging or remux and written
\* nothing under its final name.
C7_DownloadFailureAborts ==
    \A i \in Items :
        (IsTracks /\ job[i].why = "transport") =>
            /\ job[i].pc = "failed"
            /\ job[i].res.shape = "pair" /\ ~job[i].res.ok
            /\ job[i].res.msg \in TransportMsgs
            /\ job[i].eff \cap LaterEffects = {}

C7_Witness ==
    \E i \in Items :
        /\ IsTracks /\ job[i].why = "transport"
        /\ Exists(fs, PartPath(i))
        /\ Len(fs[PartPath(i)].data) >= 1
        /\ Len(fs[PartPath(i)].data) < provider[i].len

\* C8: the result of a decryption failure differs from the result of every
\* transport failure.
C8_DecryptionKindDistinct ==
    \A i, k \in Items :
        (job[i].why = "decrypt" /\ job[k].why = "transport") => job[i].res # job[k].res

\* C9: with an absent or empty key, no step decodes a token or decrypts, and
\* the step that leaves _decrypt_if_needed moves the temporary file: the final
\* file is what the temporary file was, and the temporary file is gone.
C9_NullKeyRenames ==
    [][\A i \in Items :
          (IsTracks /\ isNull(provider[i].key)) =>
              /\ {"decode", "decrypt"} \cap job'[i].eff = {}
              /\ (job[i].pc = "decrypt" /\ job'[i].pc = "meta") =>
                    /\ Exists(fs', FinalPath(i))
                    /\ fs'[FinalPath(i)] = fs[PartPath(i)]
                    /\ ~Exists(fs', PartPath(i))]_vars

C9_Witness ==
    \E i \in Items :
        /\ IsTracks /\ provider[i].key = "" /\ job[i].pc = "meta" /\ ~job[i].exists
        /\ "wfinal" \in job[i].eff
        /\ Exists(fs, FinalPath(i)) /\ Len(fs[FinalPath(i)].data) = MaxBytes

\* C10: a video whose manifest yields no segment URLs fails with
\* "GetTsUrls failed.", fetches no segment and creates no final file.
C10_EmptyManifestFails ==
    \A i \in Items :
        (IsVideos /\ provider[i].len = 0) =>
            /\ job[i].pc \in {"idle", "queued", "start", "vmanifest", "failed"}
            /\ job[i].why = "manifest" => job[i].res = Pair(FALSE, "GetTsUrls failed.")
            /\ job[i].why \in {"", "api", "transport", "manifest"}
            /\ {"seg", "wfinal"} \cap job[i].eff = {}

C10_Witness ==
    \E i \in Items : IsVideos /\ provider[i].len = 0 /\ job[i].why = "manifest"

\* C11: a failed remux is not fatal to the item: once _convert_flac_inplace
\* has returned failure the item is never put into the failed state, and
\* downloadTrack returns (True, "").
C11_RemuxFailureNonFatal ==
    \A i \in Items :
        (IsTracks /\ job[i].conv = "failed") =>
            /\ job[i].pc \in {"finish", "done"}
            /\ job[i].pc = "done" => job[i].res = Pair(TRUE, "")

C11_Witness ==
    \E i \in Items :
        /\ IsTracks /\ job[i].conv = "failed" /\ job[i].pc = "done"
        /\ job[i].res = Pair(TRUE, "")
        /\ "xfer" \in job[i].eff

\* a file whose first byte group is the FLAC signature
StartsWithFlac(f) == Len(f.data) >= 1 /\ f.data[1] = FlacSig

\* C12: the step of _convert_flac_inplace on an existing file that starts
\* with the FLAC signature returns success, leaves every file as it was and
\* has not run the transcoder.
C12_NativeFlacUntouched ==
    [][\A i \in Items :
          (/\ IsTracks /\ job[i].pc = "rprobe" /\ job'[i].pc # "rprobe"
           /\ Exists(fs, FinalPath(i)) /\ StartsWithFlac(fs[FinalPath(i)]))
          => /\ job'[i].pc = "finish" /\ job'[i].conv = "ok"
             /\ fs' = fs
             /\ "ffmpeg" \notin job'[i].eff]_vars

C12_Witness ==
    \E i \in Items :
        /\ IsTracks /\ "remux" \in job[i].eff /\ job[i].pc = "finish"
        /\ StartsWithFlac(job[i].orig) /\ job[i].conv = "ok"
        /\ Exists(fs, FinalPath(i)) /\ fs[FinalPath(i)] = job[i].orig

\* the item is past the conversion test of downloadTrack
PastConvertCheck(i) == job[i].pc \in {"finish", "done"}

\* C13 as stated: the conversion is attempted exactly when the policy is on
\* and the quality is the highest tier, whatever the name of the file.
C13_AttemptIgnoresExtension ==
    \A i \in Items :
        (IsTracks /\ PastConvertCheck(i)) =>
            ("remux" \in job[i].eff <=> (cfg.convertFlac /\ cfg.maxQuality))

\* C13: the conversion is attempted only when the policy is on, the quality
\* is the highest tier and the path ends in ".flac", and for every item past
\* the test under these three conditions it has been attempted; the
\* transcoder runs only on a file that starts with the MP4 signature.
C13_RemuxGate ==
    \A i \in Items :
        IsTracks =>
            /\ "remux" \in job[i].eff =>
                  (cfg.convertFlac /\ cfg.maxQuality /\ getExtension(TrackOf(i)) = ".flac")
            /\ (PastConvertCheck(i) /\ cfg.convertFlac /\ cfg.maxQuality
                   /\ getExtension(TrackOf(i)) = ".flac") => "remux" \in job[i].eff
            /\ "ffmpeg" \in job[i].eff =>
                  (Len(job[i].orig.data) >= 1 /\ job[i].orig.data[1] = Mp4Sig)

C13_Witness ==
    \E i \in Items :
        /\ IsTracks /\ job[i].pc = "done" /\ "remux" \in job[i].eff
        /\ "ffmpeg" \in job[i].eff /\ job[i].conv = "ok"

\* the step of downloadTrack a position belongs to: 1 path resolution and
\* skip test, 2 download, 3 decryption, 4 tagging, 5 remux, 6 return
Stage(pc) ==
    IF pc \in {"idle", "queued"} THEN 0
    ELSE IF pc \in {"start", "check"} THEN 1
    ELSE IF pc \in {"download", "fetch"} THEN 2
    ELSE IF pc \in {"decrypt", "decfile", "decwrite"} THEN 3
    ELSE IF pc \in {"meta", "tag"} THEN 4
    ELSE IF pc \in {"conv", "rprobe", "rffmpeg", "rwrite", "rtag", "rsave"} THEN 5
    ELSE 6

\* C14 as stated, its last part: an item one of whose steps failed is never
\* reported as done.
C14_AnyFailureFails ==
    \A i \in Items :
        (IsTracks /\ (job[i].conv = "failed" \/ "tagfail" \in job[i].eff)) =>
            ~(job[i].pc = "done" /\ job[i].res.ok)

\* C14: an item moves through its steps in order only; a failure of path
\* resolution, download or decryption puts it into the failed state, a
\* failure of tagging or of the remux does not; the failed and the done state
\* are absorbing, and a failed item is never reported as successful.
C14_PipelineOrder ==
    [][\A i \in Items :
          (IsTracks /\ job'[i] # job[i]) =>
             /\ job[i].pc \notin {"done", "failed"}
             /\ IF job'[i].pc = "failed"
                THEN /\ Stage(job[i].pc) \in 1 .. 3
                     /\ job'[i].res.shape = "pair" /\ ~job'[i].res.ok
                     /\ job'[i].why \in {"api", "transport", "decrypt"}
                ELSE /\ Stage(job'[i].pc) >= Stage(job[i].pc)
                     /\ job'[i].why = ""
                     /\ job'[i].pc = "done" => (job[i].pc = "finish" /\ job'[i].res.ok)]_vars

C14_Witness ==
    \E i \in Items :
        /\ IsTracks /\ job[i].pc = "done" /\ job[i].res.ok
        /\ "tagfail" \in job[i].eff /\ job[i].conv = "failed"
        /\ {"xfer", "decrypt"} \subseteq job[i].eff

\* C18: every item download that has returned has returned a pair
\* (success, message).
C18_ResultIsPair ==
    \A i \in Items : Terminal(i) => job[i].res.shape = "pair"

\* the item has resolved its path and is at work on it
AtWork(i) == Running(i) /\ job[i].pc # "start"

\* C15: no two item jobs at work at the same time have the same destination
\* path, and none the same temporary path.
C15_DistinctPaths ==
    \A i \in Items : \A k \in Items :
        (i # k /\ AtWork(i) /\ AtWork(k)) =>
            (FinalPath(i) # FinalPath(k) /\ PartPath(i) # PartPath(k))

\* C16: at most MaxWorkers item downloads run at the same time, and without
\* the pool at most one, each item called only after every earlier one
\* has returned.
C16_BoundedPool ==
    /\ Cardinality({k \in Items : Running(k)}) <= MaxWorkers
    /\ ~Threaded =>
          /\ Cardinality({k \in Items : Running(k)}) <= 1
          /\ \A i \in Items : job[i].pc # "idle" => \A k \in 1 .. i - 1 : Terminal(k)

C16_Witness ==
    /\ Threaded
    /\ Cardinality({k \in Items : Running(k)}) = MaxWorkers
    /\ \E i \in Items : job[i].pc = "queued"

\* C17: a run whose download path is not usable ends with the path error
\* of the validation, and without any login, lookup or download request.
C17_InvalidPathDetected ==
    (app.pc \in {"exit", "raised"} /\ app.dest # "ok") =>
        (app.why = "path" /\ app.net = {})

\* a recognized placeholder occurs in s
HasToken(s) ==
    \E k \in 1 .. Len(s) - 2 : \E n \in Recognized(render.kind) : SubSeq(s, k, k + 2) = Token(n)
NoBrace(s) == \A k \in 1 .. Len(s) : s[k] \notin {"{", "}"}
\* every brace of s belongs to a placeholder "{name}"
RECURSIVE WellFormed(_)
WellFormed(s) ==
    IF s = <<>> THEN TRUE
    ELSE IF Head(s) = "{"
         THEN /\ Len(s) >= 3 /\ s[2] \notin {"{", "}"} /\ s[3] = "}"
              /\ WellFormed(SubSeq(s, 4, Len(s)))
         ELSE Head(s) # "}" /\ WellFormed(Tail(s))

\* C19 as stated: no rendered path contains a recognized placeholder.
C19_NoPlaceholderLeft ==
    render.pc = "done" => ~HasToken(render.path)

\* C19: for a format all of whose braces belong to placeholders and values
\* without braces, the rendered path contains no recognized placeholder.
C19_NoPlaceholderLeftPlain ==
    (/\ render.pc = "done" /\ WellFormed(render.tpl)
     /\ NoBrace(render.artist) /\ NoBrace(render.title))
    => ~HasToken(render.path)

C19_Witness ==
    /\ render.pc = "done" /\ WellFormed(render.tpl)
    /\ render.tpl = Token("AlbumTitle") \o Token("x") \o Token("ArtistName")
    /\ render.artist = <<"/">> /\ render.title = <<"x">>
    /\ render.path = <<"x">> \o Token("x") \o <<"-">> \o Suffix(render.kind)

\* the format a call works on, and the value it has for each placeholder
FormatOf(r) == IF Len(r.tpl) <= 0 THEN getDefaultPathFormat(r.kind) ELSE r.tpl
BindingsOf(r) ==
    [n \in Recognized(r.kind) |->
        IF n = "ArtistName" THEN fixPath(r.artist)
        ELSE IF n = "AlbumTitle" THEN fixPath(r.title)
        ELSE getDurationStr(DurationOf(r.kind))]

\* every recognized placeholder of s replaced by its value in one pass
RECURSIVE Simultaneous(_, _)
Simultaneous(s, bind) ==
    IF s = <<>> THEN <<>>
    ELSE IF Len(s) >= 3 /\ \E n \in DOMAIN bind : SubSeq(s, 1, 3) = Token(n)
         THEN bind[s[2]] \o Simultaneous(SubSeq(s, 4, Len(s)), bind)
    ELSE <<Head(s)>> \o Simultaneous(Tail(s), bind)

\* C20: the rendered name is the format with every recognized placeholder
\* replaced by its value in one simultaneous pass.
C20_SimultaneousPass ==
    render.pc = "done" =>
        render.path =
            strip(Simultaneous(FormatOf(render), BindingsOf(render)), " ")
                \o Suffix(render.kind)

\* the number of limited characters of s
CountLimited(s) == Cardinality({k \in 1 .. Len(s) : s[k] \in limited_chars})

\* C21: a rendered path has no limited character but the separators its
\* format has: none comes from a substituted value.
C21_UnsafeOnlyFromTemplate ==
    render.pc = "done" => CountLimited(render.path) = CountLimited(FormatOf(render))

\* C22: the value replace_limit_char returned for the artist name does not
\* end with a dot or a space.
C22_TrimmedEnd ==
    render.pc \notin {"idle", "start", "artist"} =>
        LET r == replace_limit_char(render.artist, "-")
        IN  r = <<>> \/ r[Len(r)] \notin {".", " "}

\* C23: the start-up sync does not raise, and once it is over every setting
\* of the modern config, the proxies of the settings file among them, has
\* been copied into SETTINGS and SETTINGS has been saved.
C23_SyncCompletes ==
    /\ app.pc # "raised"
    /\ app.pc \notin {"idle", "main", "sync"} =>
          /\ app.synced = {SyncOrder[k] : k \in 1 .. Len(SyncOrder)}
          /\ app.file \cap ProxyFields \subseteq app.attrs
          /\ app.saved

\* C24: a track whose file is already there starts no transfer and no
\* decryption. In the normal mode it gets no contributor lookup, no lyrics
\* lookup, no lyric file and no tag write, and the remux check is still
\* made; in the verbose mode the lookups and the tag write are made again.
C24_SkipKeepsRemuxCheck ==
    \A i \in Items :
        /\ job[i].exists => {"xfer", "decode", "decrypt", "wfinal"} \cap job[i].eff = {}
        /\ (job[i].exists /\ job[i].skip) =>
              {"contrib", "lyrics", "lrc", "tag", "tagfail"} \cap job[i].eff = {}
        /\ (job[i].exists /\ job[i].skip /\ Terminal(i)) =>
              /\ job[i].pc = "done"
              /\ ConvertWanted(i) <=> "remux" \in job[i].eff
        /\ (job[i].exists /\ ~job[i].skip /\ Terminal(i)) =>
              /\ {"contrib", "lyrics"} \subseteq job[i].eff
              /\ {"tag", "tagfail"} \cap job[i].eff # {}

\* a skipped track in the normal mode, returned after the remux ran
C24_Witness ==
    /\ job[1].pc = "done" /\ job[1].exists /\ job[1].skip
    /\ ~cfg.verbose /\ "remux" \in job[1].eff

\* C26: when the contributor lookup, the lyrics lookup or the tag write
\* fails, the call still goes on to the remux check and returns success,
\* and the file is under its final name.
C26_MetadataFailureNonFatal ==
    \A i \in Items :
        ({"nocontrib", "nolyrics", "tagfail"} \cap job[i].eff # {}) =>
            /\ job[i].pc # "failed"
            /\ Exists(fs, FinalPath(i))
            /\ job[i].pc = "done" =>
                  /\ job[i].res = Pair(TRUE, "")
                  /\ ConvertWanted(i) <=> "remux" \in job[i].eff

\* a downloaded track whose lyrics lookup and tag write both failed,
\* returned after the remux ran
C26_Witness ==
    /\ job[1].pc = "done" /\ {"xfer", "nolyrics", "tagfail", "remux"} \subseteq job[1].eff

\* C28: a successful return for a track that was not taken as already
\* downloaded leaves the final file and no temporary file; and a track is
\* taken as already downloaded only when the final path holds a file that
\* is not empty, whatever is under the temporary name.
C28_PartNeverCounts ==
    [][\A i \in Items :
          /\ (job[i].pc = "finish" /\ job'[i].pc = "done" /\ ~job[i].exists) =>
                (Exists(fs', FinalPath(i)) /\ ~Exists(fs', PartPath(i)))
          /\ (job[i].pc = "check" /\ job'[i].exists) => getSize(fs, FinalPath(i)) > 0]_vars

\* a track downloaded over the temporary file of an earlier run: final file
\* there, temporary file gone
C28_Witness ==
    /\ job[1].pc = "done" /\ job[1].res.ok /\ ~job[1].exists
    /\ {"xfer", "decrypt"} \subseteq job[1].eff
    /\ Exists(fs, FinalPath(1)) /\ ~Exists(fs, PartPath(1))

\* C25: in the multi-threaded mode downloadTracks has not returned while a
\* submitted item is not at its end, and under fair scheduling it does
\* return.
C25_BatchCompletes ==
    /\ [](Threaded /\ ret.shape = "None" => \A i \in Items : Terminal(i))
    /\ Threaded ~> (ret.shape = "None")

\* C29: in the multi-threaded mode no remux reads the cover.jpg of its
\* folder while the submitting thread is in the middle of downloading that
\* very file.
C29_NoCoverReadDuringWrite ==
    [][\A i \in Items :
          ("coverread" \notin job[i].eff /\ "coverread" \in job'[i].eff) =>
              ~(/\ Threaded
                /\ drv.pc = "cover"
                /\ CoverPath(AlbumOfTrack(TrackOf(drv.idx))) = SiblingCover(i))]_vars

\* C30: in a playlist batch a track that has been called or submitted has
\* its position in the batch as its playlist number, and in a playlist
\* folder its path carries that number, in both modes and at every moment.
C30_PlaylistNumberIsPosition ==
    \A i \in Items :
        (IsTracks /\ batch.mode = "playlist" /\ job[i].pc # "idle") =>
            /\ job[i].num = i
            /\ InPlaylistFolder => getTrackPath(i)[2] = i

\* the second track of a playlist folder is written under number 2 while the
\* first one is still at work in the pool
C30_Witness ==
    /\ Threaded /\ InPlaylistFolder /\ N = 2
    /\ job[2].pc = "done" /\ Running(1)
    /\ Exists(fs, FinalPath(2)) /\ FinalPath(2)[1][2] = 2

\* C27: extract_flac_with_metadata leaves its source file as it was; when
\* it raises there is no file under the output path, and when it returns
\* it returns the output path.
C27_SourceKept ==
    converter.pc # "idle" =>
        /\ Content(fs, converter.src) = converter.orig
        /\ converter.pc = "raised" => ~Exists(fs, converter.out)
        /\ converter.pc = "returned" =>
              (converter.ret = converter.out /\ Exists(fs, converter.out))

====
